---- MODULE Spec2Model ----
(***************************************************************************)
(* StreamPuffer (src/video/stream_puffer.rs): two ring buffers, each       *)
(* behind its own tokio RwLock, filled by push_video / push_audio and read *)
(* by save_last_to_mp4, which snapshots both buffers, restricts them to    *)
(* their overlapping time window and hands the result to encode_to_mp4 on  *)
(* a blocking worker.                                                      *)
(***************************************************************************)
EXTENDS Integers, Sequences, FiniteSets, TLC

(* ----------------------------- bounds ---------------------------------- *)

\* Largest timestamp_ms (the low 32 bits of timestamp_us / 1000) a producer
\* delivers in the concurrent specification.
MaxTs == 1

\* Largest multiple of 2^32 ms in a delivered 64-bit timestamp.
MaxHi == 1

\* Largest ring-buffer capacity StreamPuffer::new is called with in
\* RingSpec, which draws both capacities from 0..MaxCapacity.
MaxCapacity == 2

\* The capacity of both buffers in the concurrent specification.
RunCapacity == 1

\* Most push_video (and most push_audio) calls in one behaviour of
\* RingSpec, and of the concurrent specification.
MaxPushes == 3
RunPushes == 1

\* SyncSpec: largest timestamp_ms in a buffer, and the two capacities.
MaxSnapTs == 3
MaxSnapFrames == 3
MaxSnapChunks == 2

\* EncSpec: largest timestamp_ms in a buffer, and the two capacities.
MaxEncTs == 3
MaxEncFrames == 2
MaxEncChunks == 2

\* The configured frame size in pixels, and the sample rate in Hz.
RunWidth == 2
RunHeight == 1
RunSampleRate == 1500

\* Largest configured channel count in EncSpec.
MaxChannels == 2

\* Samples per channel in one frame of the audio encoder (frame_size()).
FrameSize == 1

\* The configured target frame rate.
RunFps == 30

\* Milliseconds per second: the denominator of Rational::new(1, 1_000).
MsPerSecond == 1000

(* ------------------------------ data ----------------------------------- *)

\* A u64 microsecond timestamp t is written [hi, lo, us] with
\*   t = (hi * 2^32 + lo) * 1000 + us,  0 <= us < 1000,  0 <= lo < 2^32,
\* so that t / 1000 = hi * 2^32 + lo and (t / 1000) as u32 = lo.
TimestampUs(maxLo) == [hi : 0..MaxHi, lo : 0..maxLo, us : {0, 999}]

\* (timestamp_us / 1000) as u32: the division drops us, the cast drops hi.
TimestampMs(t) == t.lo

\* Byte length of the payload a producer delivers (the bytes themselves are
\* never inspected by the buffer or the synchronizer).
PayloadLen == 6

\* proto::Image and proto::AudioPacket as the pushes read them.
Images(maxLo) == [timestamp_us : TimestampUs(maxLo), image : {PayloadLen}]
AudioPackets(maxLo) == [timestamp : TimestampUs(maxLo), audio : {PayloadLen}]

VideoFrame(img) == [timestamp_ms |-> TimestampMs(img.timestamp_us), data |-> img.image]
AudioChunk(pkt) == [timestamp_ms |-> TimestampMs(pkt.timestamp), data |-> pkt.audio]

\* The frames / chunks a buffer can hold with timestamps up to maxLo.
Frames(maxLo) == [timestamp_ms : 0..maxLo, data : {PayloadLen}]

\* ffmpeg::Rational
Rational(n, d) == [num |-> n, den |-> d]
NoTimeBase == Rational(0, 1)

NoFrame == [timestamp_ms |-> -1, data |-> 0]

Max(a, b) == IF a >= b THEN a ELSE b
Min(a, b) == IF a <= b THEN a ELSE b

\* All sequences over S of length at most n.
BoundedSeq(S, n) == UNION {[1..k -> S] : k \in 0..n}

(* --------------------------- ring buffer ------------------------------- *)

\* VecDeque::pop_front: removes the oldest element, None on an empty deque.
PopFront(buf) == IF buf = <<>> THEN buf ELSE Tail(buf)

\* if buf.len() >= max { buf.pop_front(); } buf.push_back(x);
RingPush(buf, x, cap) == Append(IF Len(buf) >= cap THEN PopFront(buf) ELSE buf, x)

(* ------------------------------ locks ---------------------------------- *)

\* tokio::sync::RwLock: one writer or any number of readers; waiters are
\* served first-in first-out (write-preferring: a reader arriving behind a
\* waiting writer queues behind it).
Unlocked == [writer |-> "none", readers |-> {}, queue |-> <<>>]

\* Mutant: a writer is admitted while readers hold the lock.
CanWriteIgnoringReaders(l) == l.writer = "none"

\* Mutant: a reader is admitted only when no other reader holds the lock.
CanReadExclusive(l) == l.writer = "none" /\ l.readers = {}

CanWrite(l) == l.writer = "none" /\ l.readers = {}
CanRead(l) == l.writer = "none"

\* .write().await: taken at once when free and nobody waits, else queued.
RequestWrite(l, p) ==
    IF CanWrite(l) /\ l.queue = <<>>
    THEN [l EXCEPT !.writer = p]
    ELSE [l EXCEPT !.queue = Append(@, p)]

\* .read().await
RequestRead(l, p) ==
    IF CanRead(l) /\ l.queue = <<>>
    THEN [l EXCEPT !.readers = @ \cup {p}]
    ELSE [l EXCEPT !.queue = Append(@, p)]

\* The head of the queue is granted the lock once it is compatible.
MayGrantWrite(l, p) == l.queue # <<>> /\ Head(l.queue) = p /\ CanWrite(l)
MayGrantRead(l, p) == l.queue # <<>> /\ Head(l.queue) = p /\ CanRead(l)
GrantWrite(l, p) == [l EXCEPT !.writer = p, !.queue = Tail(@)]
GrantRead(l, p) == [l EXCEPT !.readers = @ \cup {p}, !.queue = Tail(@)]

\* Dropping the guard.
ReleaseWrite(l) == [l EXCEPT !.writer = "none"]
ReleaseRead(l, p) == [l EXCEPT !.readers = @ \ {p}]

(* ------------------------------ state ---------------------------------- *)

Savers == {"s1", "s2"}
Producers == {"pv", "pa"}

VARIABLES
    max_frames,        \* StreamPufferInner.max_frames
    max_audio_chunks,  \* StreamPufferInner.max_audio_chunks
    width,             \* StreamPufferInner.width
    height,            \* StreamPufferInner.height
    audio_sample_rate, \* StreamPufferInner.audio_sample_rate
    audio_channels,    \* StreamPufferInner.audio_channels
    target_fps,        \* StreamPufferInner.target_fps
    overflow_checks,   \* the build: TRUE panics on integer overflow, FALSE wraps
    push_limit,        \* how many pushes each producer makes at most
    callers,           \* the tasks that call save_last_to_mp4
    video_buf,         \* StreamPufferInner.video_buf (content)
    audio_buf,         \* StreamPufferInner.audio_buf (content)
    video_lock,        \* the RwLock around video_buf
    audio_lock,        \* the RwLock around audio_buf
    ppc,               \* position of each producer: idle, wait, locked
    frame,             \* the VideoFrame / AudioChunk a push is about to insert
    pc,                \* position of each save call
    video_frames,      \* save: snapshot of video_buf
    audio_chunks,      \* save: snapshot of audio_buf
    have_audio,        \* save: result of the synchronization
    filtered_video,
    filtered_audio,
    result,            \* save: what the call returned ("none" while running)
    out_file,          \* save: what the call has left at out_path
    enc_pc,            \* encode_to_mp4: position of the worker of each save
    audio_encoder_opt, \* encode_to_mp4: TRUE once the audio stream is set up
    video_time_base,   \* encode_to_mp4: the time base set on the video encoder
    idx,               \* encode_to_mp4: index of the frame / chunk looked at next
    sample_buffer,     \* encode_to_mp4: number of samples in sample_buffer
    total_samples_processed,
    sent_video,        \* history: the frames given to the video encoder, with PTS
    sent_audio,        \* history: the frames given to the audio encoder
    container,         \* history: what was written to the output, in order
    flushed,           \* history: the encoders that were sent EOF and drained
    failed,            \* history: the library calls that returned an error
    video_pushed,      \* history: every frame push_video has inserted, in order
    audio_pushed,      \* history: every chunk push_audio has inserted, in order
    instants           \* history: every pair of contents the two buffers have had,
                       \* kept in the specifications whose Init starts it

config == <<max_frames, max_audio_chunks, width, height, audio_sample_rate,
            audio_channels, target_fps, overflow_checks, push_limit, callers>>
bufs == <<video_buf, audio_buf>>
locks == <<video_lock, audio_lock>>
producer == <<ppc, frame>>
history == <<video_pushed, audio_pushed, instants>>
snapshot == <<video_frames, audio_chunks>>
synced == <<have_audio, filtered_video, filtered_audio>>
saver == <<pc, snapshot, synced, result, out_file>>
encoders == <<audio_encoder_opt, video_time_base>>
worker == <<enc_pc, encoders, idx, sample_buffer, total_samples_processed,
            sent_video, sent_audio, container, flushed, failed>>
vars == <<config, bufs, locks, producer, saver, worker, history>>

(* --------------------------- synchronizer ------------------------------ *)

First(seq) == seq[1]
Last(seq) == seq[Len(seq)]

\* Mutant: the window is half-open, its last instant is left out.
InOverlapHalfOpen(f, overlap_start, overlap_end) ==
    f.timestamp_ms >= overlap_start /\ f.timestamp_ms < overlap_end

\* .filter(|f| f.timestamp_ms >= overlap_start && f.timestamp_ms <= overlap_end)
InOverlap(f, overlap_start, overlap_end) ==
    f.timestamp_ms >= overlap_start /\ f.timestamp_ms <= overlap_end

\* Mutant: nothing is filtered out.
FilterOverlapKeepsAll(seq, overlap_start, overlap_end) == seq

FilterOverlap(seq, overlap_start, overlap_end) ==
    SelectSeq(seq, LAMBDA f : InOverlap(f, overlap_start, overlap_end))

\* Mutant: the window starts at the earlier of the two first timestamps.
OverlapStartEarliest(v, a) == Min(v[1].timestamp_ms, a[1].timestamp_ms)

\* let overlap_start = video_start.max(audio_start);
OverlapStart(v, a) == Max(First(v).timestamp_ms, First(a).timestamp_ms)

\* let overlap_end = video_end.min(audio_end);
OverlapEnd(v, a) == Min(Last(v).timestamp_ms, Last(a).timestamp_ms)

\* Mutant: a window of a single instant counts as an overlap.
NoOverlapStrict(v, a) == OverlapEnd(v, a) < OverlapStart(v, a)

\* if overlap_end <= overlap_start { video-only }
NoOverlap(v, a) == OverlapEnd(v, a) <= OverlapStart(v, a)

\* Mutant: an empty audio snapshot is still reported as synchronized.
SynchronizeAlwaysAudio(v, a) ==
    IF a = <<>> \/ NoOverlap(v, a)
    THEN [have_audio |-> a = <<>>, video |-> v, audio |-> <<>>]
    ELSE [have_audio |-> TRUE,
          video |-> FilterOverlap(v, OverlapStart(v, a), OverlapEnd(v, a)),
          audio |-> FilterOverlap(a, OverlapStart(v, a), OverlapEnd(v, a))]

\* Mutant: with an overlap the video snapshot is handed on unfiltered.
SynchronizeUnfiltered(v, a) ==
    IF a = <<>> \/ NoOverlap(v, a)
    THEN [have_audio |-> FALSE, video |-> v, audio |-> <<>>]
    ELSE [have_audio |-> TRUE,
          video |-> v,
          audio |-> FilterOverlap(a, OverlapStart(v, a), OverlapEnd(v, a))]

\* The (have_audio, filtered_video, filtered_audio) tuple of
\* save_last_to_mp4, for a non-empty video snapshot v.
Synchronize(v, a) ==
    IF a = <<>>
    THEN [have_audio |-> FALSE, video |-> v, audio |-> <<>>]
    ELSE IF NoOverlap(v, a)
         THEN [have_audio |-> FALSE, video |-> v, audio |-> <<>>]
         ELSE [have_audio |-> TRUE,
               video |-> FilterOverlap(v, OverlapStart(v, a), OverlapEnd(v, a)),
               audio |-> FilterOverlap(a, OverlapStart(v, a), OverlapEnd(v, a))]

\* The u32 subtractions video_end - video_start and audio_end - audio_start
\* that the two range printouts evaluate when the audio snapshot is
\* non-empty: one of them overflows when a snapshot ends before it starts.
RangeOverflows(v, a) ==
    /\ a # <<>>
    /\ \/ Last(v).timestamp_ms < First(v).timestamp_ms
       \/ Last(a).timestamp_ms < First(a).timestamp_ms

\* Mutant: the emptiness check is missing.
VideoEmptyNever(v) == FALSE

\* if video_frames.is_empty() { return Err(..) }
VideoEmpty(v) == v = <<>>

\* The save panics past the emptiness check when first().unwrap() finds no
\* frame, or when a range subtraction overflows in a build that checks it.
Panics(v, a) == v = <<>> \/ (overflow_checks /\ RangeOverflows(v, a))

(* ------------------------------- pushes -------------------------------- *)

\* The history of the pairs of contents, once started, gains the pair the
\* buffers hold after a push.
Record(pair) == IF instants = {} THEN instants ELSE instants \cup {pair}

\* push_video up to the await of video_buf.write().
PushVideoCall(img) ==
    /\ ppc["pv"] = "idle"
    /\ Len(video_pushed) < push_limit
    /\ frame' = [frame EXCEPT !["pv"] = VideoFrame(img)]
    /\ video_lock' = RequestWrite(video_lock, "pv")
    /\ ppc' = [ppc EXCEPT !["pv"] = IF video_lock'.writer = "pv" THEN "locked" ELSE "wait"]
    /\ UNCHANGED <<config, worker, bufs, audio_lock, saver, history>>

\* Mutant: one lock guards both buffers, so the grant also needs the audio
\* buffer's lock to be free.
PushVideoAcquireNeedsAudioLock ==
    /\ ppc["pv"] = "wait"
    /\ MayGrantWrite(video_lock, "pv")
    /\ CanWrite(audio_lock)
    /\ video_lock' = GrantWrite(video_lock, "pv")
    /\ ppc' = [ppc EXCEPT !["pv"] = "locked"]
    /\ UNCHANGED <<config, worker, bufs, audio_lock, frame, saver, history>>

\* The queued push_video is granted the write lock.
PushVideoAcquire ==
    /\ ppc["pv"] = "wait"
    /\ MayGrantWrite(video_lock, "pv")
    /\ video_lock' = GrantWrite(video_lock, "pv")
    /\ ppc' = [ppc EXCEPT !["pv"] = "locked"]
    /\ UNCHANGED <<config, worker, bufs, audio_lock, frame, saver, history>>

\* push_video under the write lock: evict, insert, drop the guard.
PushVideoInsert ==
    /\ ppc["pv"] = "locked"
    /\ video_buf' = RingPush(video_buf, frame["pv"], max_frames)
    /\ video_pushed' = Append(video_pushed, frame["pv"])
    /\ instants' = Record(<<video_buf', audio_buf>>)
    /\ video_lock' = ReleaseWrite(video_lock)
    /\ ppc' = [ppc EXCEPT !["pv"] = "idle"]
    /\ frame' = [frame EXCEPT !["pv"] = NoFrame]
    /\ UNCHANGED <<config, worker, audio_buf, audio_lock, saver, audio_pushed>>

\* push_audio up to the await of audio_buf.write().
PushAudioCall(pkt) ==
    /\ ppc["pa"] = "idle"
    /\ Len(audio_pushed) < push_limit
    /\ frame' = [frame EXCEPT !["pa"] = AudioChunk(pkt)]
    /\ audio_lock' = RequestWrite(audio_lock, "pa")
    /\ ppc' = [ppc EXCEPT !["pa"] = IF audio_lock'.writer = "pa" THEN "locked" ELSE "wait"]
    /\ UNCHANGED <<config, worker, bufs, video_lock, saver, history>>

PushAudioAcquire ==
    /\ ppc["pa"] = "wait"
    /\ MayGrantWrite(audio_lock, "pa")
    /\ audio_lock' = GrantWrite(audio_lock, "pa")
    /\ ppc' = [ppc EXCEPT !["pa"] = "locked"]
    /\ UNCHANGED <<config, worker, bufs, video_lock, frame, saver, history>>

PushAudioInsert ==
    /\ ppc["pa"] = "locked"
    /\ audio_buf' = RingPush(audio_buf, frame["pa"], max_audio_chunks)
    /\ audio_pushed' = Append(audio_pushed, frame["pa"])
    /\ instants' = Record(<<video_buf, audio_buf'>>)
    /\ audio_lock' = ReleaseWrite(audio_lock)
    /\ ppc' = [ppc EXCEPT !["pa"] = "idle"]
    /\ frame' = [frame EXCEPT !["pa"] = NoFrame]
    /\ UNCHANGED <<config, worker, video_buf, video_lock, saver, video_pushed>>

(* -------------------------------- save --------------------------------- *)

\* What the worker running encode_to_mp4 and the join of it can end in:
\* the value the save returns and what is left at out_path.
EncodeOutcomes ==
    {[result |-> "Ok", file |-> "complete"],
     [result |-> "EncodeError", file |-> "absent"],
     [result |-> "EncodeError", file |-> "empty"],
     [result |-> "EncodeError", file |-> "partial"],
     [result |-> "JoinError", file |-> "absent"],
     [result |-> "JoinError", file |-> "partial"]}

\* save_last_to_mp4 is called: locals are fresh, video_buf.read() is awaited.
SaveCall(s) ==
    /\ s \in callers
    /\ pc[s] \in {"idle", "done"}
    /\ video_lock' = RequestRead(video_lock, s)
    /\ pc' = [pc EXCEPT ![s] = IF s \in video_lock'.readers THEN "video_read" ELSE "video_wait"]
    /\ video_frames' = [video_frames EXCEPT ![s] = <<>>]
    /\ audio_chunks' = [audio_chunks EXCEPT ![s] = <<>>]
    /\ have_audio' = [have_audio EXCEPT ![s] = FALSE]
    /\ filtered_video' = [filtered_video EXCEPT ![s] = <<>>]
    /\ filtered_audio' = [filtered_audio EXCEPT ![s] = <<>>]
    /\ result' = [result EXCEPT ![s] = "none"]
    /\ out_file' = [out_file EXCEPT ![s] = "absent"]
    /\ UNCHANGED <<config, worker, bufs, audio_lock, producer, history>>

\* The queued read of video_buf is granted.
SaveAcquireVideo(s) ==
    /\ pc[s] = "video_wait"
    /\ MayGrantRead(video_lock, s)
    /\ video_lock' = GrantRead(video_lock, s)
    /\ pc' = [pc EXCEPT ![s] = "video_read"]
    /\ UNCHANGED <<config, worker, bufs, audio_lock, producer, snapshot, synced, result, out_file, history>>

\* Mutant: the snapshot drains the buffer instead of cloning its elements.
SaveCopyVideoDrains(s) ==
    /\ pc[s] = "video_read"
    /\ video_frames' = [video_frames EXCEPT ![s] = video_buf]
    /\ video_buf' = <<>>
    /\ video_lock' = ReleaseRead(video_lock, s)
    /\ pc' = [pc EXCEPT ![s] = "audio_request"]
    /\ UNCHANGED <<config, worker, audio_buf, audio_lock, producer, audio_chunks, synced, result, out_file, history>>

\* Mutant: the read guard outlives the copy and is never dropped.
SaveCopyVideoKeepsGuard(s) ==
    /\ pc[s] = "video_read"
    /\ video_frames' = [video_frames EXCEPT ![s] = video_buf]
    /\ pc' = [pc EXCEPT ![s] = "audio_request"]
    /\ UNCHANGED <<config, worker, bufs, locks, producer, audio_chunks, synced, result, out_file, history>>

\* guard.iter().cloned().collect(), then the guard is dropped.
SaveCopyVideo(s) ==
    /\ pc[s] = "video_read"
    /\ video_frames' = [video_frames EXCEPT ![s] = video_buf]
    /\ video_lock' = ReleaseRead(video_lock, s)
    /\ pc' = [pc EXCEPT ![s] = "audio_request"]
    /\ UNCHANGED <<config, worker, bufs, audio_lock, producer, audio_chunks, synced, result, out_file, history>>

\* audio_buf.read() is awaited.
SaveRequestAudio(s) ==
    /\ pc[s] = "audio_request"
    /\ audio_lock' = RequestRead(audio_lock, s)
    /\ pc' = [pc EXCEPT ![s] = IF s \in audio_lock'.readers THEN "audio_read" ELSE "audio_wait"]
    /\ UNCHANGED <<config, worker, bufs, video_lock, producer, snapshot, synced, result, out_file, history>>

SaveAcquireAudio(s) ==
    /\ pc[s] = "audio_wait"
    /\ MayGrantRead(audio_lock, s)
    /\ audio_lock' = GrantRead(audio_lock, s)
    /\ pc' = [pc EXCEPT ![s] = "audio_read"]
    /\ UNCHANGED <<config, worker, bufs, video_lock, producer, snapshot, synced, result, out_file, history>>

\* Mutant: the audio read guard outlives the copy.
SaveCopyAudioKeepsGuard(s) ==
    /\ pc[s] = "audio_read"
    /\ audio_chunks' = [audio_chunks EXCEPT ![s] = audio_buf]
    /\ pc' = [pc EXCEPT ![s] = "synchronize"]
    /\ UNCHANGED <<config, worker, bufs, locks, producer, video_frames, synced, result, out_file, history>>

\* Mutant: the audio snapshot is the audio buffer less its newest chunk.
SaveCopyAudioMissesNewest(s) ==
    /\ pc[s] = "audio_read"
    /\ audio_chunks' = [audio_chunks EXCEPT ![s] =
           IF audio_buf = <<>> THEN audio_buf ELSE SubSeq(audio_buf, 1, Len(audio_buf) - 1)]
    /\ audio_lock' = ReleaseRead(audio_lock, s)
    /\ pc' = [pc EXCEPT ![s] = "synchronize"]
    /\ UNCHANGED <<config, worker, bufs, video_lock, producer, video_frames, synced, result, out_file, history>>

SaveCopyAudio(s) ==
    /\ pc[s] = "audio_read"
    /\ audio_chunks' = [audio_chunks EXCEPT ![s] = audio_buf]
    /\ audio_lock' = ReleaseRead(audio_lock, s)
    /\ pc' = [pc EXCEPT ![s] = "synchronize"]
    /\ UNCHANGED <<config, worker, bufs, video_lock, producer, video_frames, synced, result, out_file, history>>

\* From the emptiness check to the check of the filtered video: no await.
\* An Err is on its way out at "return", the locals still alive.
SaveSynchronize(s) ==
    /\ pc[s] = "synchronize"
    /\ IF VideoEmpty(video_frames[s])
       THEN /\ pc' = [pc EXCEPT ![s] = "return"]
            /\ result' = [result EXCEPT ![s] = "EmptyVideo"]
            /\ UNCHANGED synced
       ELSE IF Panics(video_frames[s], audio_chunks[s])
       THEN /\ pc' = [pc EXCEPT ![s] = "panicked"]
            /\ result' = [result EXCEPT ![s] = "panic"]
            /\ UNCHANGED synced
       ELSE LET r == Synchronize(video_frames[s], audio_chunks[s]) IN
            /\ have_audio' = [have_audio EXCEPT ![s] = r.have_audio]
            /\ filtered_video' = [filtered_video EXCEPT ![s] = r.video]
            /\ filtered_audio' = [filtered_audio EXCEPT ![s] = r.audio]
            /\ IF r.video = <<>>
               THEN /\ pc' = [pc EXCEPT ![s] = "return"]
                    /\ result' = [result EXCEPT ![s] = "EmptyFiltered"]
               ELSE /\ pc' = [pc EXCEPT ![s] = "dispatch"]
                    /\ UNCHANGED result
    /\ UNCHANGED <<config, worker, bufs, locks, producer, snapshot, out_file, history>>

\* tokio::task::spawn_blocking(encode_to_mp4(..)): the worker starts.
SaveDispatch(s) ==
    /\ pc[s] = "dispatch"
    /\ pc' = [pc EXCEPT ![s] = "encoding"]
    /\ UNCHANGED <<config, worker, bufs, locks, producer, snapshot, synced, result, out_file, history>>

\* The worker ends and the awaited join returns; the sequences that were
\* moved into the worker are dropped with it.
SaveJoin(s, o) ==
    /\ pc[s] = "encoding"
    /\ pc' = [pc EXCEPT ![s] = "done"]
    /\ result' = [result EXCEPT ![s] = o.result]
    /\ out_file' = [out_file EXCEPT ![s] = o.file]
    /\ video_frames' = [video_frames EXCEPT ![s] = <<>>]
    /\ audio_chunks' = [audio_chunks EXCEPT ![s] = <<>>]
    /\ have_audio' = [have_audio EXCEPT ![s] = FALSE]
    /\ filtered_video' = [filtered_video EXCEPT ![s] = <<>>]
    /\ filtered_audio' = [filtered_audio EXCEPT ![s] = <<>>]
    /\ UNCHANGED <<config, worker, bufs, locks, producer, history>>

\* return Err(..) before the dispatch: the locals are dropped.
SaveReturn(s) ==
    /\ pc[s] = "return"
    /\ pc' = [pc EXCEPT ![s] = "done"]
    /\ video_frames' = [video_frames EXCEPT ![s] = <<>>]
    /\ audio_chunks' = [audio_chunks EXCEPT ![s] = <<>>]
    /\ have_audio' = [have_audio EXCEPT ![s] = FALSE]
    /\ filtered_video' = [filtered_video EXCEPT ![s] = <<>>]
    /\ filtered_audio' = [filtered_audio EXCEPT ![s] = <<>>]
    /\ UNCHANGED <<config, worker, bufs, locks, producer, result, out_file, history>>

(* ------------------------------- encode -------------------------------- *)

\* The worker of save s runs encode_to_mp4 on the sequences moved into it:
\* filtered_video[s], filtered_audio[s] and have_audio[s]. Every call into
\* the ffmpeg library that returns a Result either succeeds or fails.

loops == <<idx, sample_buffer, total_samples_processed>>
trace == <<sent_video, sent_audio, container, flushed>>
caller == <<pc, snapshot, synced, result>>

\* The library call `step` of the worker of s returns an error, or not.
Fails(s, step, error) ==
    failed' = [failed EXCEPT ![s] = IF error THEN @ \cup {step} ELSE @]

\* let expected_size = (width * height * 3) as usize;
ExpectedSize == width * height * 3

\* a - b on u32 where the build does not check overflow: the difference is
\* value when a >= b, and 2^32 + value (wrapped) when a < b.
U32Sub(a, b) == [wrapped |-> a < b, value |-> a - b]

\* What one pass of the video loop over a well-formed frame can end in:
\* scaler.run fails; send_frame fails; the encoder keeps the frame and
\* yields no packet; it yields a packet that is written; receive_packet
\* returns an error; or writing a packet fails.
FrameOutcomes ==
    {"scale_error", "send_error", "buffered", "packet", "receive_error", "write_error"}

\* ffmpeg::init, out_path.to_str and format::output, which opens out_path
\* for writing (an empty file is created, an existing one truncated).
EncodeCreateOutput(s, ok) ==
    /\ pc[s] = "encoding"
    /\ enc_pc[s] = "idle"
    /\ IF ok
       THEN /\ enc_pc' = [enc_pc EXCEPT ![s] = "video_setup"]
            /\ out_file' = [out_file EXCEPT ![s] = "empty"]
       ELSE /\ enc_pc' = [enc_pc EXCEPT ![s] = "err"]
            /\ UNCHANGED out_file
    /\ Fails(s, "output", ~ok)
    /\ UNCHANGED <<config, bufs, locks, producer, caller, encoders, loops, trace, history>>

\* The time base the packets of both encoders are rescaled from:
\* Rational::new(1, 1_000), the unit of the PTS given to the encoders.
PacketTimeBase == Rational(1, MsPerSecond)

\* video_encoder.set_time_base(Rational::new(1, fps as i32))
VideoTimeBase(fps) == Rational(1, fps)

\* The MPEG4 encoder is found, its stream added, its context created,
\* configured and opened.
EncodeVideoSetup(s, ok) ==
    /\ enc_pc[s] = "video_setup"
    /\ enc_pc' = [enc_pc EXCEPT ![s] = IF ok THEN "audio_setup" ELSE "err"]
    /\ video_time_base' = [video_time_base EXCEPT ![s] = VideoTimeBase(target_fps)]
    /\ Fails(s, "video_setup", ~ok)
    /\ UNCHANGED <<config, bufs, locks, producer, saver, audio_encoder_opt, loops, trace,
                   history>>

\* Mutant: the audio stream is set up whenever the save is synchronized.
EncodeAudioSetupIfHaveAudio(s, ok) ==
    /\ enc_pc[s] = "audio_setup"
    /\ IF have_audio[s]
       THEN /\ enc_pc' = [enc_pc EXCEPT ![s] = IF ok THEN "header" ELSE "err"]
            /\ audio_encoder_opt' = [audio_encoder_opt EXCEPT ![s] = ok]
       ELSE /\ enc_pc' = [enc_pc EXCEPT ![s] = "header"]
            /\ UNCHANGED audio_encoder_opt
    /\ Fails(s, "audio_setup", have_audio[s] /\ ~ok)
    /\ UNCHANGED <<config, bufs, locks, producer, saver, video_time_base, loops, trace,
                   history>>

\* if have_audio && !audio_chunks.is_empty() { the AAC encoder is found, its
\* stream added, its context created and opened }
EncodeAudioSetup(s, ok) ==
    /\ enc_pc[s] = "audio_setup"
    /\ IF have_audio[s] /\ filtered_audio[s] # <<>>
       THEN /\ enc_pc' = [enc_pc EXCEPT ![s] = IF ok THEN "header" ELSE "err"]
            /\ audio_encoder_opt' = [audio_encoder_opt EXCEPT ![s] = ok]
       ELSE /\ enc_pc' = [enc_pc EXCEPT ![s] = "header"]
            /\ UNCHANGED audio_encoder_opt
    /\ Fails(s, "audio_setup", have_audio[s] /\ filtered_audio[s] # <<>> /\ ~ok)
    /\ UNCHANGED <<config, bufs, locks, producer, saver, video_time_base, loops, trace,
                   history>>

\* octx.write_header()
EncodeWriteHeader(s, ok) ==
    /\ enc_pc[s] = "header"
    /\ IF ok
       THEN /\ enc_pc' = [enc_pc EXCEPT ![s] = "scaler"]
            /\ container' = [container EXCEPT ![s] = Append(@, "header")]
            /\ out_file' = [out_file EXCEPT ![s] = "partial"]
       ELSE /\ enc_pc' = [enc_pc EXCEPT ![s] = "err"]
            /\ UNCHANGED <<container, out_file>>
    /\ Fails(s, "write_header", ~ok)
    /\ UNCHANGED <<config, bufs, locks, producer, caller, encoders, loops,
                   sent_video, sent_audio, flushed, history>>

\* scaling::Context::get, then video_frames.first().unwrap() and the entry
\* into the video loop.
EncodeCreateScaler(s, ok) ==
    /\ enc_pc[s] = "scaler"
    /\ enc_pc' = [enc_pc EXCEPT ![s] =
           IF ~ok THEN "err" ELSE IF filtered_video[s] = <<>> THEN "panic" ELSE "frames"]
    /\ idx' = [idx EXCEPT ![s] = 1]
    /\ Fails(s, "scaler", ~ok)
    /\ UNCHANGED <<config, bufs, locks, producer, saver, encoders,
                   sample_buffer, total_samples_processed, trace, history>>

\* The number of packets of one kind written so far.
Written(s, kind) == Cardinality({i \in 1..Len(container[s]) : container[s][i] = kind})

\* The pass over a frame of the expected size, past scaler.run: stamped
\* with timestamp_ms - first_timestamp (a u32 subtraction), sent to the
\* encoder, and the packets the encoder yields are written. An error of
\* receive_packet only ends `while receive_packet(..).is_ok()`.
SubmitFrame(s, o) ==
    LET vframe == filtered_video[s][idx[s]]
        first_timestamp == filtered_video[s][1].timestamp_ms
        pts == U32Sub(vframe.timestamp_ms, first_timestamp)
    IN  IF pts.wrapped /\ overflow_checks
        THEN /\ enc_pc' = [enc_pc EXCEPT ![s] = "panic"]
             /\ UNCHANGED <<idx, sent_video, container, failed>>
        ELSE IF o = "send_error"
        THEN /\ enc_pc' = [enc_pc EXCEPT ![s] = "err"]
             /\ Fails(s, "send_frame", TRUE)
             /\ UNCHANGED <<idx, sent_video, container>>
        ELSE /\ sent_video' = [sent_video EXCEPT ![s] =
                    Append(@, [idx |-> idx[s], pts |-> pts])]
             /\ enc_pc' = [enc_pc EXCEPT ![s] = IF o = "write_error" THEN "err" ELSE @]
             /\ idx' = [idx EXCEPT ![s] = IF o = "write_error" THEN @ ELSE @ + 1]
             /\ container' = [container EXCEPT ![s] =
                    IF o = "packet" THEN Append(@, "video_packet") ELSE @]
             /\ failed' = [failed EXCEPT ![s] =
                    IF o = "write_error" THEN @ \cup {"write_packet"}
                    ELSE IF o = "receive_error" THEN @ \cup {"receive_packet"}
                    ELSE @]

\* Mutant: a frame of the wrong size fails the whole encode.
EncodeFrameRejectsMalformed(s, o) ==
    /\ enc_pc[s] = "frames"
    /\ idx[s] <= Len(filtered_video[s])
    /\ IF filtered_video[s][idx[s]].data # ExpectedSize \/ o = "scale_error"
       THEN /\ enc_pc' = [enc_pc EXCEPT ![s] = "err"]
            /\ Fails(s, "scaler_run", o = "scale_error")
            /\ UNCHANGED <<idx, sent_video, container>>
       ELSE SubmitFrame(s, o)
    /\ UNCHANGED <<config, bufs, locks, producer, saver, encoders,
                   sample_buffer, total_samples_processed, sent_audio, flushed, history>>

\* One pass of `for (idx, vframe) in video_frames.iter().enumerate()`: a
\* frame of the wrong size is skipped; any other is scaled and submitted.
EncodeFrame(s, o) ==
    /\ enc_pc[s] = "frames"
    /\ idx[s] <= Len(filtered_video[s])
    /\ IF filtered_video[s][idx[s]].data # ExpectedSize
       THEN /\ idx' = [idx EXCEPT ![s] = @ + 1]
            /\ UNCHANGED <<enc_pc, sent_video, container, failed>>
       ELSE IF o = "scale_error"
       THEN /\ enc_pc' = [enc_pc EXCEPT ![s] = "err"]
            /\ Fails(s, "scaler_run", TRUE)
            /\ UNCHANGED <<idx, sent_video, container>>
       ELSE SubmitFrame(s, o)
    /\ UNCHANGED <<config, bufs, locks, producer, saver, encoders,
                   sample_buffer, total_samples_processed, sent_audio, flushed, history>>

\* What flushing an encoder can end in: send_eof fails; every packet the
\* encoder still holds is written; receive_packet returns an error, which
\* only ends the loop; or writing a packet fails.
FlushOutcomes == {"eof_error", "drained", "receive_error", "write_error"}

\* After the loop: send_eof, and the packets the encoder still holds are
\* written; then on to the audio, if an audio encoder was set up.
EncodeFlushVideo(s, o) ==
    /\ enc_pc[s] = "frames"
    /\ idx[s] > Len(filtered_video[s])
    /\ IF o \in {"drained", "receive_error"}
       THEN /\ enc_pc' = [enc_pc EXCEPT ![s] =
                   IF audio_encoder_opt[s] THEN "audio" ELSE "trailer"]
            /\ flushed' = [flushed EXCEPT ![s] = @ \cup {"video"}]
            /\ container' = [container EXCEPT ![s] =
                   IF o = "drained" /\ Written(s, "video_packet") < Len(sent_video[s])
                   THEN Append(@, "video_packet") ELSE @]
            /\ idx' = [idx EXCEPT ![s] = 1]
            /\ Fails(s, "receive_packet", o = "receive_error")
       ELSE /\ enc_pc' = [enc_pc EXCEPT ![s] = "err"]
            /\ Fails(s, IF o = "eof_error" THEN "send_eof" ELSE "write_packet", TRUE)
            /\ UNCHANGED <<flushed, container, idx>>
    /\ UNCHANGED <<config, bufs, locks, producer, saver, encoders,
                   sample_buffer, total_samples_processed, sent_video, sent_audio, history>>

\* The samples of one save are told apart by their position in the stream
\* of all samples pushed into sample_buffer; sample_buffer[k] is the sample
\* at position start + k, start being the number of samples drained so far.
\* left_out[i] = sample_buffer[i * 2]; right_out[i] = sample_buffer[i * 2 + 1]
Planes(start) ==
    [j \in 0..1 |-> [i \in 0..(FrameSize - 1) |-> start + (i * 2 + j)]]

\* Mutant: the PTS counts the samples of all channels.
AudioFrameInterleavedPts(buffer, total) ==
    [pts |-> (total * audio_channels * 1000) \div audio_sample_rate,
     planes |-> Planes(total * audio_channels),
     start |-> total * audio_channels,
     available |-> buffer,
     drained |-> FrameSize * audio_channels]

\* The frame one pass of the loop sends: its PTS, the planes it carries,
\* where sample_buffer started and how much it held when the planes were
\* filled, and how many samples the pass drained.
AudioFrame(buffer, total) ==
    [pts |-> (total * 1000) \div audio_sample_rate,
     planes |-> Planes(total * audio_channels),
     start |-> total * audio_channels,
     available |-> buffer,
     drained |-> FrameSize * audio_channels]

\* while sample_buffer.len() >= frame_size * channels { .. }: each pass
\* reads sample_buffer[0 .. 2 * frame_size] (the two planes of a stereo
\* frame, an index out of bounds when the buffer is shorter), stamps the
\* frame with total_samples_processed * 1000 / sample_rate and drains
\* frame_size * channels samples.
RECURSIVE DrainFrames(_, _, _)
DrainFrames(buffer, total, sent) ==
    IF buffer < FrameSize * audio_channels
    THEN [buffer |-> buffer, total |-> total, sent |-> sent, panics |-> FALSE]
    ELSE IF buffer < 2 * FrameSize
    THEN [buffer |-> buffer, total |-> total, sent |-> sent, panics |-> TRUE]
    ELSE DrainFrames(buffer - FrameSize * audio_channels, total + FrameSize,
                     Append(sent, AudioFrame(buffer, total)))

\* One pass of `for (idx, achunk) in audio_chunks.iter().enumerate()`: the
\* chunk's s16le samples join sample_buffer and every complete frame is
\* sent to the audio encoder; a chunk of less than one sample is skipped.
EncodeAudioChunk(s, ok) ==
    /\ enc_pc[s] = "audio"
    /\ idx[s] <= Len(filtered_audio[s])
    /\ LET samples == filtered_audio[s][idx[s]].data \div 2
           r == DrainFrames(sample_buffer[s] + samples, total_samples_processed[s], <<>>)
       IN  IF samples = 0
           THEN /\ idx' = [idx EXCEPT ![s] = @ + 1]
                /\ UNCHANGED <<enc_pc, sample_buffer, total_samples_processed,
                               sent_audio, container, failed>>
           ELSE IF ~ok /\ sample_buffer[s] + samples >= 2 * FrameSize
                       /\ sample_buffer[s] + samples >= FrameSize * audio_channels
           THEN /\ enc_pc' = [enc_pc EXCEPT ![s] = "err"]
                /\ Fails(s, "send_audio_frame", TRUE)
                /\ UNCHANGED <<idx, sample_buffer, total_samples_processed,
                               sent_audio, container>>
           ELSE /\ enc_pc' = [enc_pc EXCEPT ![s] = IF r.panics THEN "panic" ELSE @]
                /\ UNCHANGED failed
                /\ idx' = [idx EXCEPT ![s] = IF r.panics THEN @ ELSE @ + 1]
                /\ sample_buffer' = [sample_buffer EXCEPT ![s] = r.buffer]
                /\ total_samples_processed' =
                       [total_samples_processed EXCEPT ![s] = r.total]
                /\ sent_audio' = [sent_audio EXCEPT ![s] = @ \o r.sent]
                /\ container' = [container EXCEPT ![s] =
                       IF r.sent # <<>> THEN Append(@, "audio_packet") ELSE @]
    /\ UNCHANGED <<config, bufs, locks, producer, saver, encoders,
                   sent_video, flushed, history>>

\* After the audio loop: send_eof on the audio encoder, and the packets it
\* still holds are written.
EncodeFlushAudio(s, o) ==
    /\ enc_pc[s] = "audio"
    /\ idx[s] > Len(filtered_audio[s])
    /\ IF o \in {"drained", "receive_error"}
       THEN /\ enc_pc' = [enc_pc EXCEPT ![s] = "trailer"]
            /\ flushed' = [flushed EXCEPT ![s] = @ \cup {"audio"}]
            /\ container' = [container EXCEPT ![s] =
                   IF o = "drained" /\ sent_audio[s] # <<>>
                   THEN Append(@, "audio_packet") ELSE @]
            /\ Fails(s, "receive_packet", o = "receive_error")
       ELSE /\ enc_pc' = [enc_pc EXCEPT ![s] = "err"]
            /\ Fails(s, IF o = "eof_error" THEN "send_eof" ELSE "write_packet", TRUE)
            /\ UNCHANGED <<flushed, container>>
    /\ UNCHANGED <<config, bufs, locks, producer, saver, encoders, loops,
                   sent_video, sent_audio, history>>

\* octx.write_trailer(), then Ok(()).
EncodeWriteTrailer(s, ok) ==
    /\ enc_pc[s] = "trailer"
    /\ IF ok
       THEN /\ enc_pc' = [enc_pc EXCEPT ![s] = "ok"]
            /\ container' = [container EXCEPT ![s] = Append(@, "trailer")]
            /\ out_file' = [out_file EXCEPT ![s] = "complete"]
       ELSE /\ enc_pc' = [enc_pc EXCEPT ![s] = "err"]
            /\ UNCHANGED <<container, out_file>>
    /\ Fails(s, "write_trailer", ~ok)
    /\ UNCHANGED <<config, bufs, locks, producer, caller, encoders, loops,
                   sent_video, sent_audio, flushed, history>>

\* .await.map_err(|e| format!("Task join error: {}", e))??: a worker that
\* panicked surfaces as a join error, one that returned Err as that Err.
JoinResult(e) ==
    IF e = "ok" THEN "Ok" ELSE IF e = "panic" THEN "JoinError" ELSE "EncodeError"

\* The worker has ended and the awaited join returns; the sequences moved
\* into the worker and the worker's own state are gone.
SaveJoinWorker(s) ==
    /\ pc[s] = "encoding"
    /\ enc_pc[s] \in {"ok", "err", "panic"}
    /\ pc' = [pc EXCEPT ![s] = "done"]
    /\ result' = [result EXCEPT ![s] = JoinResult(enc_pc[s])]
    /\ video_frames' = [video_frames EXCEPT ![s] = <<>>]
    /\ audio_chunks' = [audio_chunks EXCEPT ![s] = <<>>]
    /\ have_audio' = [have_audio EXCEPT ![s] = FALSE]
    /\ filtered_video' = [filtered_video EXCEPT ![s] = <<>>]
    /\ filtered_audio' = [filtered_audio EXCEPT ![s] = <<>>]
    /\ enc_pc' = [enc_pc EXCEPT ![s] = "idle"]
    /\ audio_encoder_opt' = [audio_encoder_opt EXCEPT ![s] = FALSE]
    /\ video_time_base' = [video_time_base EXCEPT ![s] = NoTimeBase]
    /\ idx' = [idx EXCEPT ![s] = 0]
    /\ sample_buffer' = [sample_buffer EXCEPT ![s] = 0]
    /\ total_samples_processed' = [total_samples_processed EXCEPT ![s] = 0]
    /\ sent_video' = [sent_video EXCEPT ![s] = <<>>]
    /\ sent_audio' = [sent_audio EXCEPT ![s] = <<>>]
    /\ container' = [container EXCEPT ![s] = <<>>]
    /\ flushed' = [flushed EXCEPT ![s] = {}]
    /\ failed' = [failed EXCEPT ![s] = {}]
    /\ UNCHANGED <<config, bufs, locks, producer, out_file, history>>

(* --------------------------- specifications ---------------------------- *)

InitTasks ==
    /\ video_lock = Unlocked
    /\ audio_lock = Unlocked
    /\ ppc = [p \in Producers |-> "idle"]
    /\ frame = [p \in Producers |-> NoFrame]
    /\ pc = [s \in Savers |-> "idle"]
    /\ video_frames = [s \in Savers |-> <<>>]
    /\ audio_chunks = [s \in Savers |-> <<>>]
    /\ have_audio = [s \in Savers |-> FALSE]
    /\ filtered_video = [s \in Savers |-> <<>>]
    /\ filtered_audio = [s \in Savers |-> <<>>]
    /\ result = [s \in Savers |-> "none"]
    /\ out_file = [s \in Savers |-> "absent"]
    /\ enc_pc = [s \in Savers |-> "idle"]
    /\ audio_encoder_opt = [s \in Savers |-> FALSE]
    /\ video_time_base = [s \in Savers |-> NoTimeBase]
    /\ idx = [s \in Savers |-> 0]
    /\ sample_buffer = [s \in Savers |-> 0]
    /\ total_samples_processed = [s \in Savers |-> 0]
    /\ sent_video = [s \in Savers |-> <<>>]
    /\ sent_audio = [s \in Savers |-> <<>>]
    /\ container = [s \in Savers |-> <<>>]
    /\ flushed = [s \in Savers |-> {}]
    /\ failed = [s \in Savers |-> {}]

\* The frame size and the sample rate StreamPuffer::new is called with.
InitMedia ==
    /\ width = RunWidth
    /\ height = RunHeight
    /\ audio_sample_rate = RunSampleRate
    /\ target_fps = RunFps

\* StreamPuffer::new(RunCapacity, RunCapacity, ..), built with or without
\* overflow checks; producers push and one task saves.
Init ==
    /\ max_frames = RunCapacity
    /\ max_audio_chunks = RunCapacity
    /\ InitMedia
    /\ audio_channels = 2
    /\ overflow_checks \in BOOLEAN
    /\ push_limit = RunPushes
    /\ callers = {"s1"}
    /\ video_buf = <<>>
    /\ audio_buf = <<>>
    /\ video_pushed = <<>>
    /\ audio_pushed = <<>>
    /\ InitTasks
    /\ instants = {}

\* StreamPuffer::new with any capacities; only the producers run.
InitRing ==
    /\ max_frames \in 0..MaxCapacity
    /\ max_audio_chunks \in 0..MaxCapacity
    /\ InitMedia
    /\ audio_channels = 2
    /\ overflow_checks = FALSE
    /\ push_limit = MaxPushes
    /\ callers = {}
    /\ video_buf = <<>>
    /\ audio_buf = <<>>
    /\ video_pushed = <<>>
    /\ audio_pushed = <<>>
    /\ InitTasks
    /\ instants = {}

\* Any content the two buffers can hold when a save is called and no push
\* is in progress.
InitSync ==
    /\ max_frames = MaxSnapFrames
    /\ max_audio_chunks = MaxSnapChunks
    /\ InitMedia
    /\ audio_channels = 2
    /\ overflow_checks \in BOOLEAN
    /\ push_limit = 0
    /\ callers = {"s1"}
    /\ video_buf \in BoundedSeq(Frames(MaxSnapTs), MaxSnapFrames)
    /\ audio_buf \in BoundedSeq(Frames(MaxSnapTs), MaxSnapChunks)
    /\ video_pushed = video_buf
    /\ audio_pushed = audio_buf
    /\ InitTasks
    /\ instants = {}

PushNext ==
    \/ \E img \in Images(MaxTs) : PushVideoCall(img)
    \/ PushVideoAcquire
    \/ PushVideoInsert
    \/ \E pkt \in AudioPackets(MaxTs) : PushAudioCall(pkt)
    \/ PushAudioAcquire
    \/ PushAudioInsert

SaveNext ==
    \E s \in Savers :
        \/ SaveCall(s)
        \/ SaveAcquireVideo(s)
        \/ SaveCopyVideo(s)
        \/ SaveRequestAudio(s)
        \/ SaveAcquireAudio(s)
        \/ SaveCopyAudio(s)
        \/ SaveSynchronize(s)
        \/ SaveDispatch(s)
        \/ \E o \in EncodeOutcomes : SaveJoin(s, o)
        \/ SaveReturn(s)

Next == PushNext \/ SaveNext

\* A save that no push interleaves with never waits for a lock.
SyncNext ==
    \E s \in Savers :
        \/ SaveCall(s)
        \/ SaveCopyVideo(s)
        \/ SaveRequestAudio(s)
        \/ SaveCopyAudio(s)
        \/ SaveSynchronize(s)
        \/ SaveDispatch(s)
        \/ \E o \in EncodeOutcomes : SaveJoin(s, o)
        \/ SaveReturn(s)

\* Producers alone: one producer per buffer never waits for its lock.
RingNext ==
    \/ \E img \in Images(MaxTs) : PushVideoCall(img)
    \/ PushVideoInsert
    \/ \E pkt \in AudioPackets(MaxTs) : PushAudioCall(pkt)
    \/ PushAudioInsert

Spec == Init /\ [][Next]_vars

\* The runtime keeps polling every task that can run: a granted lock is
\* taken, a held guard is used and dropped. Nothing obliges a caller to
\* call.
Fairness ==
    /\ WF_vars(PushVideoAcquire)
    /\ WF_vars(PushVideoInsert)
    /\ WF_vars(PushAudioAcquire)
    /\ WF_vars(PushAudioInsert)
    /\ \A s \in Savers :
        /\ WF_vars(SaveAcquireVideo(s))
        /\ WF_vars(SaveCopyVideo(s))
        /\ WF_vars(SaveRequestAudio(s))
        /\ WF_vars(SaveAcquireAudio(s))
        /\ WF_vars(SaveCopyAudio(s))

FairSpec == Init /\ [][Next]_vars /\ Fairness

RingSpec == InitRing /\ [][RingNext]_vars

SyncSpec == InitSync /\ [][SyncNext]_vars

\* StreamPuffer::new(RunCapacity, RunCapacity, ..); producers push and
\* every task of Savers saves, any number of times.
InitShared ==
    /\ max_frames = RunCapacity
    /\ max_audio_chunks = RunCapacity
    /\ InitMedia
    /\ audio_channels = 2
    /\ overflow_checks \in BOOLEAN
    /\ push_limit = RunPushes
    /\ callers = Savers
    /\ video_buf = <<>>
    /\ audio_buf = <<>>
    /\ video_pushed = <<>>
    /\ audio_pushed = <<>>
    /\ InitTasks
    /\ instants = {}

SharedSpec == InitShared /\ [][Next]_vars

\* As Init, with the history of the pairs of contents started.
InitInstants ==
    /\ max_frames = RunCapacity
    /\ max_audio_chunks = RunCapacity
    /\ InitMedia
    /\ audio_channels = 2
    /\ overflow_checks \in BOOLEAN
    /\ push_limit = RunPushes
    /\ callers = {"s1"}
    /\ video_buf = <<>>
    /\ audio_buf = <<>>
    /\ video_pushed = <<>>
    /\ audio_pushed = <<>>
    /\ InitTasks
    /\ instants = {<<video_buf, audio_buf>>}

InstantSpec == InitInstants /\ [][Next]_vars

\* A save that holds its snapshots goes on to synchronize them: the code
\* between the audio copy and the dispatch has no await.
SaveFairness == \A s \in Savers : WF_vars(SaveSynchronize(s))

FairSharedSpec == InitShared /\ [][Next]_vars /\ Fairness /\ SaveFairness

\* The frames and chunks of EncSpec: frames of the configured size and
\* frames one byte longer; chunks of PayloadLen bytes.
EncFrames == [timestamp_ms : 0..MaxEncTs,
              data : {RunWidth * RunHeight * 3, RunWidth * RunHeight * 3 + 1}]
EncChunks == [timestamp_ms : 0..MaxEncTs, data : {PayloadLen}]

\* Any content the two buffers can hold when a save is called, frames of a
\* wrong size included, for a mono or a stereo configuration.
InitEnc ==
    /\ max_frames = MaxEncFrames
    /\ max_audio_chunks = MaxEncChunks
    /\ InitMedia
    /\ audio_channels \in 1..MaxChannels
    /\ overflow_checks \in BOOLEAN
    /\ push_limit = 0
    /\ callers = {"s1"}
    /\ video_buf \in BoundedSeq(EncFrames, MaxEncFrames)
    /\ audio_buf \in BoundedSeq(EncChunks, MaxEncChunks)
    /\ video_pushed = video_buf
    /\ audio_pushed = audio_buf
    /\ InitTasks
    /\ instants = {}

\* encode_to_mp4 on the worker of a dispatched save.
EncodeNext ==
    \E s \in Savers :
        \/ \E ok \in BOOLEAN : EncodeCreateOutput(s, ok)
        \/ \E ok \in BOOLEAN : EncodeVideoSetup(s, ok)
        \/ \E ok \in BOOLEAN : EncodeAudioSetup(s, ok)
        \/ \E ok \in BOOLEAN : EncodeWriteHeader(s, ok)
        \/ \E ok \in BOOLEAN : EncodeCreateScaler(s, ok)
        \/ \E o \in FrameOutcomes : EncodeFrame(s, o)
        \/ \E o \in FlushOutcomes : EncodeFlushVideo(s, o)
        \/ \E ok \in BOOLEAN : EncodeAudioChunk(s, ok)
        \/ \E o \in FlushOutcomes : EncodeFlushAudio(s, o)
        \/ \E ok \in BOOLEAN : EncodeWriteTrailer(s, ok)

\* A save that no push interleaves with, its worker followed step by step.
EncNext ==
    \/ \E s \in Savers :
        \/ SaveCall(s)
        \/ SaveCopyVideo(s)
        \/ SaveRequestAudio(s)
        \/ SaveCopyAudio(s)
        \/ SaveSynchronize(s)
        \/ SaveDispatch(s)
        \/ SaveReturn(s)
        \/ SaveJoinWorker(s)
    \/ EncodeNext

EncSpec == InitEnc /\ [][EncNext]_vars

(* ------------------------------- claims -------------------------------- *)

\* The positions of a save past its synchronization step.
PastSync == {"dispatch", "encoding", "return", "panicked"}

\* The last n elements of seq.
LastN(seq, n) == SubSeq(seq, Len(seq) - n + 1, Len(seq))

\* C1: in every reachable state each ring buffer holds at most as many
\* elements as its configured capacity, for every configured capacity.
C1_LenWithinCapacity ==
    /\ Len(video_buf) <= max_frames
    /\ Len(audio_buf) <= max_audio_chunks

\* C1, for capacities of at least 1 only (holds; capacity 0 is the failure).
C1_LenWithinPositiveCapacity ==
    /\ max_frames >= 1 => Len(video_buf) <= max_frames
    /\ max_audio_chunks >= 1 => Len(audio_buf) <= max_audio_chunks

\* C2: each ring buffer holds exactly the most recently pushed
\* min(capacity, total pushes) elements, in push order.
C2_RetainsMostRecent ==
    /\ video_buf = LastN(video_pushed, Min(max_frames, Len(video_pushed)))
    /\ audio_buf = LastN(audio_pushed, Min(max_audio_chunks, Len(audio_pushed)))

\* C2, for capacities of at least 1 only (holds; capacity 0 is the failure).
C2_RetainsMostRecentPositiveCapacity ==
    /\ max_frames >= 1 =>
           video_buf = LastN(video_pushed, Min(max_frames, Len(video_pushed)))
    /\ max_audio_chunks >= 1 =>
           audio_buf = LastN(audio_pushed, Min(max_audio_chunks, Len(audio_pushed)))

\* C3: a save whose video snapshot is empty has, once past its check,
\* returned the empty-video error, whatever the audio snapshot holds; it
\* was never dispatched to the encoder and has left no file.
C3_EmptyVideoFails ==
    \A s \in Savers :
        (pc[s] \in PastSync /\ video_frames[s] = <<>>) =>
            /\ pc[s] = "return"
            /\ result[s] = "EmptyVideo"
            /\ out_file[s] = "absent"

C3_Witness ==
    /\ pc["s1"] = "return"
    /\ video_frames["s1"] = <<>>
    /\ audio_chunks["s1"] # <<>>
    /\ result["s1"] = "EmptyVideo"

\* C4: with a non-empty video snapshot and an empty audio snapshot the
\* synchronization yields have_audio = FALSE, the whole video snapshot in
\* order and no audio, and the save goes on to the encoder.
C4_EmptyAudioPassthrough ==
    \A s \in Savers :
        (pc[s] \in PastSync /\ video_frames[s] # <<>> /\ audio_chunks[s] = <<>>) =>
            /\ have_audio[s] = FALSE
            /\ filtered_video[s] = video_frames[s]
            /\ filtered_audio[s] = <<>>
            /\ pc[s] \in {"dispatch", "encoding"}
            /\ result[s] = "none"

C4_Witness ==
    /\ pc["s1"] = "encoding"
    /\ Len(video_frames["s1"]) >= 2
    /\ audio_chunks["s1"] = <<>>
    /\ filtered_video["s1"] = video_frames["s1"]

\* min(video_end, audio_end) <= max(video_start, audio_start), as C5 words it.
WindowEmpty(v, a) ==
    Min(v[Len(v)].timestamp_ms, a[Len(a)].timestamp_ms)
        <= Max(v[1].timestamp_ms, a[1].timestamp_ms)

\* C5: with both snapshots non-empty and no temporal intersection the
\* synchronization yields have_audio = FALSE, the whole video snapshot and
\* no audio, and the save goes on to the encoder without an error.
C5_NoOverlapDegrades ==
    \A s \in Savers :
        (/\ pc[s] \in PastSync
         /\ video_frames[s] # <<>>
         /\ audio_chunks[s] # <<>>
         /\ WindowEmpty(video_frames[s], audio_chunks[s])) =>
            /\ have_audio[s] = FALSE
            /\ filtered_video[s] = video_frames[s]
            /\ filtered_audio[s] = <<>>
            /\ pc[s] \in {"dispatch", "encoding"}
            /\ result[s] = "none"

\* C5 in a build without overflow checks, and in any build when neither
\* snapshot ends before it starts (holds).
C5_NoOverlapDegradesUnlessOverflow ==
    \A s \in Savers :
        (/\ pc[s] \in PastSync
         /\ video_frames[s] # <<>>
         /\ audio_chunks[s] # <<>>
         /\ WindowEmpty(video_frames[s], audio_chunks[s])
         /\ ~(overflow_checks /\ RangeOverflows(video_frames[s], audio_chunks[s]))) =>
            /\ have_audio[s] = FALSE
            /\ filtered_video[s] = video_frames[s]
            /\ filtered_audio[s] = <<>>
            /\ pc[s] \in {"dispatch", "encoding"}
            /\ result[s] = "none"

\* The positions of seq whose timestamp lies in [lo, hi].
WindowIndices(seq, lo, hi) ==
    {j \in 1..Len(seq) : lo <= seq[j].timestamp_ms /\ seq[j].timestamp_ms <= hi}

\* sub is seq restricted to the timestamps in [lo, hi]: it has one element
\* for each position of seq in the window, the i-th of them being the
\* element at the i-th such position.
IsWindowOf(sub, seq, lo, hi) ==
    LET J == WindowIndices(seq, lo, hi) IN
    /\ Len(sub) = Cardinality(J)
    /\ \A j \in J : sub[Cardinality({k \in J : k <= j})] = seq[j]

\* C6: when max(first timestamps) < min(last timestamps), the video and the
\* audio sequence the save hands on are exactly the snapshot elements with
\* a timestamp in that closed interval, in snapshot order.
C6_FilterExact ==
    \A s \in Savers :
        LET v == video_frames[s]
            a == audio_chunks[s]
        IN  (/\ pc[s] \in PastSync
             /\ v # <<>>
             /\ a # <<>>
             /\ ~WindowEmpty(v, a)) =>
                LET lo == Max(v[1].timestamp_ms, a[1].timestamp_ms)
                    hi == Min(v[Len(v)].timestamp_ms, a[Len(a)].timestamp_ms)
                IN  /\ have_audio[s] = TRUE
                    /\ IsWindowOf(filtered_video[s], v, lo, hi)
                    /\ IsWindowOf(filtered_audio[s], a, lo, hi)
                    /\ pc[s] # "panicked"

C6_Witness ==
    /\ pc["s1"] = "encoding"
    /\ have_audio["s1"] = TRUE
    /\ Len(filtered_video["s1"]) = 2
    /\ Len(video_frames["s1"]) = 3
    /\ Len(filtered_audio["s1"]) = 1
    /\ Len(audio_chunks["s1"]) = 2

\* The audio snapshot's range [first, last] lies inside the video's.
AudioInsideVideo(v, a) ==
    /\ v[1].timestamp_ms <= a[1].timestamp_ms
    /\ a[1].timestamp_ms <= a[Len(a)].timestamp_ms
    /\ a[Len(a)].timestamp_ms <= v[Len(v)].timestamp_ms

\* C7 as claimed: for every non-empty audio snapshot, a single-element one
\* included, whose range lies inside the video snapshot's range, the save
\* is synchronized, keeps every audio chunk and keeps exactly the video
\* frames inside the audio range.
C7_ContainedAudioSynchronized ==
    \A s \in Savers :
        LET v == video_frames[s]
            a == audio_chunks[s]
        IN  (pc[s] \in PastSync /\ v # <<>> /\ a # <<>> /\ AudioInsideVideo(v, a)) =>
                /\ have_audio[s] = TRUE
                /\ filtered_audio[s] = a
                /\ IsWindowOf(filtered_video[s], v,
                              a[1].timestamp_ms, a[Len(a)].timestamp_ms)

\* C7 amended: the same for an audio snapshot whose first timestamp is
\* strictly smaller than its last and whose chunks all lie between the two.
C7_ContainedAudioAmended ==
    \A s \in Savers :
        LET v == video_frames[s]
            a == audio_chunks[s]
        IN  (/\ pc[s] \in PastSync
             /\ v # <<>>
             /\ a # <<>>
             /\ AudioInsideVideo(v, a)
             /\ a[1].timestamp_ms < a[Len(a)].timestamp_ms
             /\ \A i \in 1..Len(a) :
                    /\ a[1].timestamp_ms <= a[i].timestamp_ms
                    /\ a[i].timestamp_ms <= a[Len(a)].timestamp_ms) =>
                /\ have_audio[s] = TRUE
                /\ filtered_audio[s] = a
                /\ IsWindowOf(filtered_video[s], v,
                              a[1].timestamp_ms, a[Len(a)].timestamp_ms)
                /\ pc[s] # "panicked"

C7_Witness ==
    /\ pc["s1"] = "encoding"
    /\ have_audio["s1"] = TRUE
    /\ AudioInsideVideo(video_frames["s1"], audio_chunks["s1"])
    /\ filtered_audio["s1"] = audio_chunks["s1"]
    /\ Len(video_frames["s1"]) = 3
    /\ Len(filtered_video["s1"]) = 1

\* The elements of a sequence.
Range(seq) == {seq[i] : i \in 1..Len(seq)}

\* Task t holds or awaits lock l.
Engaged(l, t) == l.writer = t \/ t \in l.readers \/ t \in Range(l.queue)

\* C8: no step of a save changes either ring buffer, and a save that has
\* returned (with Ok or with any error) or panicked neither holds nor
\* awaits a lock: pushes and later saves find the buffers and the locks as
\* if the save had not been called.
C8_SaveLeavesBuffers ==
    /\ [][saver' # saver => UNCHANGED <<video_buf, audio_buf, config>>]_vars
    /\ [](\A s \in Savers :
            pc[s] \in {"idle", "done", "panicked"} =>
                ~Engaged(video_lock, s) /\ ~Engaged(audio_lock, s))

C8_Witness ==
    /\ pc["s1"] = "done"
    /\ result["s1"] \in {"EmptyFiltered", "EncodeError", "JoinError"}
    /\ video_buf # <<>>
    /\ audio_buf # <<>>

\* C9: every step of push_video leaves the audio buffer and the audio lock
\* as they are, and every step of push_audio the video buffer and the video
\* lock; a producer never holds or awaits the other buffer's lock, and a
\* queued push is granted its lock as soon as that lock alone permits,
\* whoever holds or awaits the other one.
C9_IndependentLocks ==
    /\ [][/\ ppc'["pv"] # ppc["pv"] => UNCHANGED <<audio_buf, audio_lock>>
          /\ ppc'["pa"] # ppc["pa"] => UNCHANGED <<video_buf, video_lock>>]_vars
    /\ [](/\ ~Engaged(audio_lock, "pv")
          /\ ~Engaged(video_lock, "pa")
          /\ (ppc["pv"] = "wait" /\ MayGrantWrite(video_lock, "pv"))
                => ENABLED PushVideoAcquire
          /\ (ppc["pa"] = "wait" /\ MayGrantWrite(audio_lock, "pa"))
                => ENABLED PushAudioAcquire)

C9_Witness ==
    /\ ppc["pv"] = "wait"
    /\ MayGrantWrite(video_lock, "pv")
    /\ audio_lock.writer = "pa"
    /\ audio_lock.queue # <<>>

\* C10: a push that has to wait for its lock waits only while some save is
\* inside the copy block of that same buffer (awaiting or holding its read
\* guard), never while the saves are synchronizing, dispatching or
\* encoding; and under fair scheduling every push that was called returns.
C10_PushesComplete ==
    /\ [](/\ (ppc["pv"] = "wait" /\ ~MayGrantWrite(video_lock, "pv"))
                => \E s \in Savers : pc[s] \in {"video_wait", "video_read"}
          /\ (ppc["pa"] = "wait" /\ ~MayGrantWrite(audio_lock, "pa"))
                => \E s \in Savers : pc[s] \in {"audio_wait", "audio_read"})
    /\ (ppc["pv"] # "idle") ~> (ppc["pv"] = "idle")
    /\ (ppc["pa"] # "idle") ~> (ppc["pa"] = "idle")

C10_Witness ==
    /\ ppc["pv"] = "wait"
    /\ pc["s1"] = "video_read"
    /\ ppc["pa"] = "locked"

\* The positions at which a save owns its video snapshot, and its audio one.
HasVideoSnapshot ==
    {"audio_request", "audio_wait", "audio_read", "synchronize", "dispatch",
     "encoding", "return", "panicked"}
HasAudioSnapshot == {"synchronize", "dispatch", "encoding", "return", "panicked"}

\* C11: while a save holds read access to a buffer the buffer does not
\* change, and the copy it takes is the buffer as it is then, so the
\* snapshot is the content at the instant the access was acquired; from then
\* on the snapshot never changes, whatever is pushed, and the sequences
\* handed to the encoder hold elements of the snapshots only.
C11_SnapshotAtAcquisition ==
    /\ [][\A s \in Savers :
            /\ pc[s] = "video_read" =>
                   /\ video_buf' = video_buf
                   /\ pc'[s] # "video_read" => video_frames'[s] = video_buf
            /\ pc[s] = "audio_read" =>
                   /\ audio_buf' = audio_buf
                   /\ pc'[s] # "audio_read" => audio_chunks'[s] = audio_buf
            /\ (pc[s] \in HasVideoSnapshot /\ pc'[s] \in HasVideoSnapshot) =>
                   video_frames'[s] = video_frames[s]
            /\ (pc[s] \in HasAudioSnapshot /\ pc'[s] \in HasAudioSnapshot) =>
                   audio_chunks'[s] = audio_chunks[s]]_vars
    /\ [](\A s \in Savers :
            /\ Range(filtered_video[s]) \subseteq Range(video_frames[s])
            /\ Range(filtered_audio[s]) \subseteq Range(audio_chunks[s]))

C11_Witness ==
    /\ pc["s1"] = "encoding"
    /\ video_frames["s1"] = video_buf
    /\ video_buf # <<>>
    /\ audio_chunks["s1"] = <<>>
    /\ audio_buf # <<>>

\* The positions of a save inside its two copy blocks.
Snapshotting == {"video_wait", "video_read", "audio_request", "audio_wait", "audio_read"}

\* C12 as claimed: with several saves and the producers running together,
\* every save that was called eventually reaches its encode dispatch.
C12_SavesReachDispatch ==
    \A s \in Savers : (pc[s] \in Snapshotting) ~> (pc[s] = "dispatch")

\* C12 amended: a save has to wait for read access only when a writer holds
\* the lock or somebody is queued for it, never because another save is
\* reading; the steps of one save leave the snapshots of the others alone;
\* and every save that was called eventually gets both snapshots and either
\* reaches its dispatch, returns an error, or panics.
C12_SavesComplete ==
    /\ [][\A s \in Savers :
            /\ (pc[s] \in {"idle", "done"} /\ pc'[s] = "video_wait") =>
                   (video_lock.writer # "none" \/ video_lock.queue # <<>>)
            /\ (pc[s] = "audio_request" /\ pc'[s] = "audio_wait") =>
                   (audio_lock.writer # "none" \/ audio_lock.queue # <<>>)
            /\ pc'[s] = pc[s] =>
                   /\ video_frames'[s] = video_frames[s]
                   /\ audio_chunks'[s] = audio_chunks[s]]_vars
    /\ \A s \in Savers :
           (pc[s] \in Snapshotting) ~> (pc[s] \in {"dispatch", "return", "panicked"})

C12_Witness ==
    /\ {"s1", "s2"} \subseteq video_lock.readers
    /\ video_buf # <<>>

\* C20: a save holds the video read lock only inside the video copy and the
\* audio read lock only inside the audio copy, never both, and it neither
\* holds nor awaits a lock while it synchronizes, dispatches, awaits the
\* worker or has ended.
C20_LocksOnlyWhileCopying ==
    \A s \in Savers :
        /\ s \in video_lock.readers => pc[s] = "video_read"
        /\ s \in audio_lock.readers => pc[s] = "audio_read"
        /\ ~(s \in video_lock.readers /\ Engaged(audio_lock, s))
        /\ Engaged(video_lock, s) => pc[s] \in {"video_wait", "video_read"}
        /\ Engaged(audio_lock, s) => pc[s] \in {"audio_wait", "audio_read"}
        /\ video_lock.writer # s /\ audio_lock.writer # s

C20_Witness ==
    /\ pc["s1"] = "encoding"
    /\ pc["s2"] = "video_read"
    /\ ppc["pa"] = "locked"

\* The positions of filtered_video[s] below k whose frame has exactly
\* width * height * 3 bytes.
WellFormedBelow(s, k) ==
    {j \in 1..Len(filtered_video[s]) :
        j < k /\ filtered_video[s][j].data = width * height * 3}

\* The positions of the frames given to the video encoder, in the order given.
SentPositions(s) == [i \in 1..Len(sent_video[s]) |-> sent_video[s][i].idx]

\* C13: the frames given to the video encoder are frames of exactly
\* width * height * 3 bytes, in snapshot order; inside the loop every such
\* frame already passed was given, and past the loop all of them were. The
\* pass over a frame of another size only moves on to the next frame
\* (nothing is sent or written and the encode does not fail), and the
\* video loop panics only on a timestamp below the first frame's.
C13_MalformedSkipped ==
    /\ [](\A s \in Savers :
            /\ \A i \in 1..Len(sent_video[s]) :
                   /\ sent_video[s][i].idx \in WellFormedBelow(s, Len(filtered_video[s]) + 1)
                   /\ \A j \in 1..Len(sent_video[s]) :
                          i < j => sent_video[s][i].idx < sent_video[s][j].idx
            /\ enc_pc[s] = "frames" =>
                   Range(SentPositions(s)) = WellFormedBelow(s, idx[s])
            /\ enc_pc[s] \in {"audio", "trailer", "ok"} =>
                   Range(SentPositions(s)) = WellFormedBelow(s, Len(filtered_video[s]) + 1)
            /\ (enc_pc[s] = "panic" /\ "video" \notin flushed[s]) =>
                   \E j \in 1..Len(filtered_video[s]) :
                       filtered_video[s][j].timestamp_ms < filtered_video[s][1].timestamp_ms)
    /\ [][\A s \in Savers :
            (/\ enc_pc[s] = "frames"
             /\ idx[s] <= Len(filtered_video[s])
             /\ filtered_video[s][idx[s]].data # width * height * 3
             /\ <<enc_pc[s], idx[s]>>' # <<enc_pc[s], idx[s]>>) =>
                /\ enc_pc'[s] = "frames"
                /\ idx'[s] = idx[s] + 1
                /\ sent_video'[s] = sent_video[s]
                /\ container'[s] = container[s]
                /\ result'[s] = result[s]]_vars

\* Two frames, the first of a wrong size: the encode succeeded with the other.
C13_Witness ==
    /\ enc_pc["s1"] = "ok"
    /\ Len(filtered_video["s1"]) = 2
    /\ filtered_video["s1"][1].data # width * height * 3
    /\ SentPositions("s1") = <<2>>
    /\ container["s1"][Len(container["s1"])] = "trailer"

\* The values a save returns as Err.
ErrResults == {"EmptyVideo", "EmptyFiltered", "EncodeError", "JoinError"}

\* What C14 says of the order of the writes: whatever was written to the
\* output starts with the header, written once; the trailer is written last
\* and only after the video encoder and, when one was set up, the audio
\* encoder were flushed; a save returns Ok only when the trailer was written.
TrailerLast ==
    /\ [](\A s \in Savers :
            /\ container[s] # <<>> => container[s][1] = "header"
            /\ \A i \in 2..Len(container[s]) : container[s][i] # "header"
            /\ \A i \in 1..Len(container[s]) :
                   container[s][i] = "trailer" =>
                       /\ i = Len(container[s])
                       /\ "video" \in flushed[s]
                       /\ audio_encoder_opt[s] => "audio" \in flushed[s]
            /\ enc_pc[s] \in {"err", "panic"} => "trailer" \notin Range(container[s])
            /\ enc_pc[s] = "ok" <=> "trailer" \in Range(container[s]))
    /\ [][\A s \in Savers :
            (pc[s] = "encoding" /\ pc'[s] = "done") =>
                /\ "trailer" \notin Range(container[s]) => result'[s] \in ErrResults
                /\ result'[s] = "Ok" => "trailer" \in Range(container[s])]_vars

\* C14: the header is written before any packet and the trailer only after
\* both encoders were flushed; and once any step before the trailer has
\* failed, the trailer is never written and the save returns an error.
C14_HeaderFirstTrailerLast ==
    /\ TrailerLast
    /\ [](\A s \in Savers : failed[s] # {} => "trailer" \notin Range(container[s]))
    /\ [][\A s \in Savers :
            (pc[s] = "encoding" /\ pc'[s] = "done" /\ failed[s] # {}) =>
                result'[s] \in ErrResults]_vars

\* C14 for every failure but an error of receive_packet, which only ends
\* the loop that drains an encoder (holds).
C14_UnlessReceivePacketFails ==
    /\ TrailerLast
    /\ [](\A s \in Savers :
            failed[s] \ {"receive_packet"} # {} =>
                /\ enc_pc[s] = "err"
                /\ "trailer" \notin Range(container[s]))

\* C15: once the video or the audio codec could not be found or opened,
\* there is no output file, and no header, packet or trailer was written.
C15_CodecFailureBeforeOutput ==
    \A s \in Savers :
        failed[s] \cap {"video_setup", "audio_setup"} # {} =>
            /\ out_file[s] = "absent"
            /\ container[s] = <<>>

\* C15 without the file: nothing was written into it, and the encode has
\* failed (holds; the file itself exists, empty, from format::output on).
C15_CodecFailureBeforeHeader ==
    \A s \in Savers :
        failed[s] \cap {"video_setup", "audio_setup"} # {} =>
            /\ enc_pc[s] = "err"
            /\ out_file[s] = "empty"
            /\ container[s] = <<>>

\* C16: the first frame given to the video encoder has PTS 0, and every
\* frame given has as PTS its timestamp_ms minus the timestamp_ms of the
\* first frame of the sequence the encode was called with.
C16_VideoStartsAtZero ==
    \A s \in Savers :
        /\ sent_video[s] # <<>> => sent_video[s][1].pts = [wrapped |-> FALSE, value |-> 0]
        /\ \A i \in 1..Len(sent_video[s]) :
               sent_video[s][i].pts.value =
                   filtered_video[s][sent_video[s][i].idx].timestamp_ms
                       - filtered_video[s][1].timestamp_ms

\* C16 for the PTS of each frame alone (holds), and the first PTS when the
\* first frame of the sequence has the expected size (holds).
C16_RelativeToFirstOfSequence ==
    \A s \in Savers :
        /\ \A i \in 1..Len(sent_video[s]) :
               sent_video[s][i].pts.value =
                   filtered_video[s][sent_video[s][i].idx].timestamp_ms
                       - filtered_video[s][1].timestamp_ms
        /\ (sent_video[s] # <<>> /\ filtered_video[s][1].data = width * height * 3) =>
               sent_video[s][1].pts = [wrapped |-> FALSE, value |-> 0]

\* The positions of the worker past the setup of the audio stream.
PastAudioSetup == {"header", "scaler", "frames", "audio", "trailer", "ok"}

\* C17 as claimed: past the stream setup, an audio stream exists exactly
\* when the save is synchronized (have_audio = TRUE), and a synchronized
\* encode that succeeded has run the audio path.
C17_AudioTrackIffHaveAudio ==
    \A s \in Savers :
        /\ enc_pc[s] \in PastAudioSetup => (audio_encoder_opt[s] <=> have_audio[s])
        /\ (enc_pc[s] = "ok" /\ have_audio[s]) => "audio" \in flushed[s]

\* C17 amended: an audio stream exists exactly when the save is
\* synchronized and at least one audio chunk is left after the filtering;
\* an encode with an audio stream that succeeded has run the audio path, and
\* one without sends nothing to an audio encoder and writes no audio packet.
C17_AudioTrackIffAudioLeft ==
    \A s \in Savers :
        /\ enc_pc[s] \in PastAudioSetup =>
               (audio_encoder_opt[s] <=> (have_audio[s] /\ filtered_audio[s] # <<>>))
        /\ (enc_pc[s] = "ok" /\ audio_encoder_opt[s]) => "audio" \in flushed[s]
        /\ ~audio_encoder_opt[s] =>
               /\ sent_audio[s] = <<>>
               /\ "audio" \notin flushed[s]
               /\ "audio_packet" \notin Range(container[s])
        /\ ~have_audio[s] => ~audio_encoder_opt[s]

\* A synchronized save none of whose audio chunks lies in the window.
C17_Witness ==
    /\ enc_pc["s1"] = "ok"
    /\ have_audio["s1"]
    /\ audio_chunks["s1"] # <<>>
    /\ filtered_audio["s1"] = <<>>
    /\ ~audio_encoder_opt["s1"]

\* C18: a save never panics; one that returns before the dispatch returns
\* Err; and one whose worker failed, panicked or had a library call fail
\* returns Err, never Ok.
C18_FailuresReturnErr ==
    /\ [](\A s \in Savers :
            /\ pc[s] # "panicked"
            /\ pc[s] = "return" => result[s] \in ErrResults)
    /\ [][\A s \in Savers :
            (/\ pc[s] = "encoding"
             /\ pc'[s] = "done"
             /\ (enc_pc[s] \in {"err", "panic"} \/ failed[s] # {})) =>
                result'[s] \in ErrResults]_vars

\* C18 in a build without overflow checks, or when no snapshot ends before
\* it starts, and for every failure but an error of receive_packet (holds).
C18_UnlessOverflowOrReceivePacket ==
    /\ [](\A s \in Savers :
            /\ pc[s] = "panicked" =>
                   overflow_checks /\ RangeOverflows(video_frames[s], audio_chunks[s])
            /\ pc[s] = "return" => result[s] \in ErrResults)
    /\ [][\A s \in Savers :
            (/\ pc[s] = "encoding"
             /\ pc'[s] = "done"
             /\ (enc_pc[s] \in {"err", "panic"} \/ failed[s] \ {"receive_packet"} # {})) =>
                result'[s] \in ErrResults]_vars

\* PTS of the last frame given to the video encoder minus PTS of the first:
\* ms milliseconds plus wraps times 2^32.
VideoSpan(s) ==
    LET first == sent_video[s][1].pts
        last == sent_video[s][Len(sent_video[s])].pts
    IN  [wraps |-> (IF last.wrapped THEN 1 ELSE 0) - (IF first.wrapped THEN 1 ELSE 0),
         ms |-> last.value - first.value]

\* The positions of the worker past the video loop.
PastVideoLoop == {"audio", "trailer", "ok"}

C21_EncoderTimeBaseIsMillis ==
    \A s \in Savers :
        video_time_base[s] # NoTimeBase => video_time_base[s] = PacketTimeBase

\* The time base set on the video encoder is one frame interval, 1/fps s;
\* it is the millisecond the PTS are counted in only at 1000 frames/s.
C21_EncoderTimeBaseIsFrameInterval ==
    \A s \in Savers :
        video_time_base[s] # NoTimeBase =>
            /\ video_time_base[s] = Rational(1, target_fps)
            /\ video_time_base[s] = PacketTimeBase <=> target_fps = MsPerSecond

(* C22: de-interleaving *)

\* The audio loop ended in a panic (the video loop was already flushed).
AudioPanicked(s) == enc_pc[s] = "panic" /\ "video" \in flushed[s]

\* C22: whatever the configured channel count c, every audio frame sent
\* carries c planes, plane j holding accumulator[i*c + j] at index i; each
\* frame consumes frame_size*c samples, and no index beyond the samples
\* available is read.
C22_DeinterleaveEveryChannelCount ==
    \A s \in Savers :
        /\ ~AudioPanicked(s)
        /\ \A k \in 1..Len(sent_audio[s]) :
               LET f == sent_audio[s][k]
               IN  /\ DOMAIN f.planes = 0..(audio_channels - 1)
                   /\ f.drained = FrameSize * audio_channels
                   /\ \A j \in 0..(audio_channels - 1), i \in 0..(FrameSize - 1) :
                          /\ i * audio_channels + j < f.available
                          /\ f.planes[j][i] = f.start + (i * audio_channels + j)

\* Every frame sent carries the two planes of a stereo frame, read from
\* accumulator[i*2] and accumulator[i*2 + 1]: the de-interleave of the
\* accumulator when two channels are configured, and only then; with one
\* channel the read of accumulator[2*frame_size - 1] can run past the end.
C22_DeinterleaveStereo ==
    \A s \in Savers :
        /\ AudioPanicked(s) =>
               /\ audio_channels = 1
               /\ sample_buffer[s] < 2 * FrameSize
        /\ \A k \in 1..Len(sent_audio[s]) :
               LET f == sent_audio[s][k]
               IN  /\ DOMAIN f.planes = 0..1
                   /\ f.drained = FrameSize * audio_channels
                   /\ 2 * FrameSize <= f.available
                   /\ \A j \in 0..1, i \in 0..(FrameSize - 1) :
                          f.planes[j][i] = f.start + (i * 2 + j)
                   /\ audio_channels = 2 =>
                          \A j \in 0..1, i \in 0..(FrameSize - 1) :
                              f.planes[j][i] = f.start + (i * audio_channels + j)

(* C23: audio framing *)

\* The number of 16-bit samples in the first n chunks.
RECURSIVE SamplesIn(_, _)
SamplesIn(chunks, n) ==
    IF n = 0 THEN 0 ELSE SamplesIn(chunks, n - 1) + (chunks[n].data \div 2)

\* The audio loop of the save has ended, by running out of chunks or by a
\* panic.
AudioLoopOver(s) ==
    /\ audio_encoder_opt[s]
    /\ \/ enc_pc[s] \in {"trailer", "ok"}
       \/ AudioPanicked(s)

\* C23: after each chunk the accumulator holds less than one frame, and
\* over the whole save floor(S / (frame_size * channels)) frames are sent,
\* S being the number of samples in the retained chunks; the rest is
\* neither sent nor padded.
C23_FramingSpansChunks ==
    \A s \in Savers :
        LET per_frame == FrameSize * audio_channels
        IN  /\ enc_pc[s] \in {"audio", "trailer", "ok"} =>
                   sample_buffer[s] < per_frame
            /\ AudioLoopOver(s) =>
                   Len(sent_audio[s]) =
                       SamplesIn(filtered_audio[s], Len(filtered_audio[s])) \div per_frame

\* As long as the audio loop does not panic, the frames sent after n
\* chunks are floor(S_n / (frame_size * channels)), S_n being the samples
\* of these chunks, and the accumulator holds the remainder, which the
\* flush leaves out.
C23_FramingUnlessPanic ==
    \A s \in Savers :
        LET per_frame == FrameSize * audio_channels
            chunks == IF enc_pc[s] = "audio" THEN idx[s] - 1 ELSE Len(filtered_audio[s])
            samples == SamplesIn(filtered_audio[s], chunks)
        IN  /\ (audio_encoder_opt[s] /\ enc_pc[s] \in {"audio", "trailer", "ok"}) =>
                   /\ Len(sent_audio[s]) = samples \div per_frame
                   /\ sample_buffer[s] = samples % per_frame
                   /\ total_samples_processed[s] = Len(sent_audio[s]) * FrameSize
            /\ AudioPanicked(s) =>
                   /\ audio_channels = 1
                   /\ Len(sent_audio[s]) <
                          SamplesIn(filtered_audio[s], Len(filtered_audio[s])) \div per_frame

(* C24: audio PTS *)

\* C24: the k-th audio frame sent (k from 0) has PTS
\* floor(k * frame_size * 1000 / sample_rate) ms: the first PTS is 0 and
\* the sequence never decreases, whatever the chunks' timestamps.
C24_AudioPtsFromSamplePosition ==
    \A s \in Savers :
        \A n \in 1..Len(sent_audio[s]) :
            /\ sent_audio[s][n].pts =
                   ((n - 1) * FrameSize * 1000) \div audio_sample_rate
            /\ n = 1 => sent_audio[s][n].pts = 0
            /\ n > 1 => sent_audio[s][n - 1].pts <= sent_audio[s][n].pts

\* Three frames sent from chunks whose timestamps do not begin at 0; the
\* division rounds the second PTS down to the first.
C24_Witness ==
    /\ enc_pc["s1"] = "ok"
    /\ filtered_audio["s1"] # <<>>
    /\ filtered_audio["s1"][1].timestamp_ms > 0
    /\ Len(sent_audio["s1"]) = 3
    /\ sent_audio["s1"][2].pts = sent_audio["s1"][1].pts
    /\ sent_audio["s1"][3].pts > 0

(* C25: arithmetic of the synchronization *)

\* C25: for a non-empty video snapshot and any audio snapshot, also ones
\* whose last timestamp is below their first, the synchronization ends in
\* a result and never in an arithmetic underflow or a panic.
C25_SynchronizeNeverPanics ==
    \A s \in Savers :
        (pc[s] \in PastSync /\ video_frames[s] # <<>>) => pc[s] # "panicked"

\* With a non-empty video snapshot the synchronization panics exactly when
\* the build checks overflow, the audio snapshot is non-empty and one of
\* the snapshots ends before it starts; otherwise it yields a result.
C25_PanicsOnDescendingRange ==
    \A s \in Savers :
        (pc[s] \in PastSync /\ video_frames[s] # <<>>) =>
            (pc[s] = "panicked" <=>
                (overflow_checks /\ RangeOverflows(video_frames[s], audio_chunks[s])))

(* C26: the two snapshots of one save *)

\* No push is under way and none can begin: the buffers have had every
\* content they will ever have.
PushesOver ==
    /\ Len(video_pushed) = push_limit
    /\ Len(audio_pushed) = push_limit
    /\ \A p \in Producers : ppc[p] = "idle"

\* C26: the two snapshots of a save describe the buffers at one common
\* instant: some state of the behaviour has the video buffer equal to the
\* video snapshot and the audio buffer equal to the audio snapshot.
C26_SnapshotsAtOneInstant ==
    \A s \in Savers :
        (pc[s] \in HasAudioSnapshot /\ PushesOver) =>
            <<video_frames[s], audio_chunks[s]>> \in instants

\* The snapshots describe the buffers at two successive instants: the
\* audio snapshot is the audio buffer when the audio copy is taken, the
\* video snapshot the video buffer of an earlier instant, and the two are
\* the buffers of one instant when the video buffer is still the video
\* snapshot at the audio copy.
C26_SnapshotsAtSuccessiveInstants ==
    /\ [][\A s \in Savers :
            (pc[s] = "audio_read" /\ pc'[s] # "audio_read") =>
                /\ audio_chunks'[s] = audio_buf
                /\ video_frames'[s] = video_frames[s]
                /\ \E p \in instants : p[1] = video_frames[s]
                /\ video_buf = video_frames[s] =>
                       <<video_frames'[s], audio_chunks'[s]>> \in instants]_vars
    /\ [](\A s \in Savers :
            pc[s] \in HasAudioSnapshot =>
                /\ \E p \in instants : p[1] = video_frames[s]
                /\ \E p \in instants : p[2] = audio_chunks[s])

\* A save whose snapshots were taken around a push of video followed by a
\* push of audio: no instant had both contents.
C26_Witness ==
    /\ pc["s1"] \in HasAudioSnapshot
    /\ PushesOver
    /\ video_frames["s1"] = <<>>
    /\ audio_chunks["s1"] # <<>>
    /\ <<video_frames["s1"], audio_chunks["s1"]>> \notin instants

(* C27: video frames left by the filter *)

\* The window is not empty and no video frame lies in it.
FilteredAway(v, a) ==
    /\ a # <<>>
    /\ ~WindowEmpty(v, a)
    /\ \A i \in 1..Len(v) :
           \/ v[i].timestamp_ms < Max(v[1].timestamp_ms, a[1].timestamp_ms)
           \/ v[i].timestamp_ms > Min(v[Len(v)].timestamp_ms, a[Len(a)].timestamp_ms)

SynchronizedEncode(s) ==
    /\ pc[s] = "encoding"
    /\ have_audio[s]
    /\ filtered_video[s] # <<>>
    /\ filtered_audio[s] # <<>>

\* C28: in a synchronized save the capture timestamp that becomes video
\* PTS 0 (that of the first retained video frame) is the capture timestamp
\* that becomes audio PTS 0 (that of the first retained audio chunk).
C28_OneTimeOrigin ==
    \A s \in Savers :
        SynchronizedEncode(s) =>
            filtered_video[s][1].timestamp_ms = filtered_audio[s][1].timestamp_ms

\* Each track has its own origin: every video PTS is the frame's timestamp
\* minus the first retained video frame's, the audio PTS count from the
\* first sample of the first retained chunk, and both origins lie in the
\* overlap window, so the shift between the tracks is at most its length.
C28_OriginsWithinWindow ==
    \A s \in Savers :
        LET v == video_frames[s]
            a == audio_chunks[s]
            fv == filtered_video[s]
            fa == filtered_audio[s]
            lo == Max(v[1].timestamp_ms, a[1].timestamp_ms)
            hi == Min(v[Len(v)].timestamp_ms, a[Len(a)].timestamp_ms)
        IN  SynchronizedEncode(s) =>
                /\ lo <= fv[1].timestamp_ms /\ fv[1].timestamp_ms <= hi
                /\ lo <= fa[1].timestamp_ms /\ fa[1].timestamp_ms <= hi
                /\ fv[1].timestamp_ms - fa[1].timestamp_ms <= hi - lo
                /\ fa[1].timestamp_ms - fv[1].timestamp_ms <= hi - lo
                /\ \A k \in 1..Len(sent_video[s]) :
                       sent_video[s][k].pts =
                           U32Sub(fv[sent_video[s][k].idx].timestamp_ms, fv[1].timestamp_ms)
                /\ sent_audio[s] # <<>> =>
                       /\ sent_audio[s][1].pts = 0
                       /\ sent_audio[s][1].start = 0

\* A finished synchronized save whose first video frame and first audio
\* chunk were captured at different times: both start at PTS 0.
C28_Witness ==
    /\ SynchronizedEncode("s1")
    /\ enc_pc["s1"] = "ok"
    /\ sent_video["s1"] # <<>>
    /\ sent_video["s1"][1].idx = 1
    /\ sent_video["s1"][1].pts = [wrapped |-> FALSE, value |-> 0]
    /\ sent_audio["s1"] # <<>>
    /\ filtered_video["s1"][1].timestamp_ms # filtered_audio["s1"][1].timestamp_ms

(* C29: narrowing of the timestamps *)

\* a <= b as 64-bit microsecond timestamps.
UsLeq(a, b) ==
    \/ a.hi < b.hi
    \/ a.hi = b.hi /\ a.lo < b.lo
    \/ a.hi = b.hi /\ a.lo = b.lo /\ a.us <= b.us

\* push_video was given a and is now given b.
VideoGiven(a, b) ==
    /\ video_pushed # <<>>
    /\ Last(video_pushed) = VideoFrame([timestamp_us |-> a, image |-> PayloadLen])
    /\ ppc["pv"] # "idle"
    /\ frame["pv"] = VideoFrame([timestamp_us |-> b, image |-> PayloadLen])

\* push_audio was given a and is now given b.
AudioGiven(a, b) ==
    /\ audio_pushed # <<>>
    /\ Last(audio_pushed) = AudioChunk([timestamp |-> a, audio |-> PayloadLen])
    /\ ppc["pa"] # "idle"
    /\ frame["pa"] = AudioChunk([timestamp |-> b, audio |-> PayloadLen])

\* C29: for every two 64-bit timestamps a <= b given to push_video, or to
\* push_audio, one after the other, the stored timestamp_ms values are in
\* the same order.
C29_NarrowingPreservesOrder ==
    \A a, b \in TimestampUs(MaxTs) :
        UsLeq(a, b) =>
            /\ VideoGiven(a, b) =>
                   Last(video_pushed).timestamp_ms <= frame["pv"].timestamp_ms
            /\ AudioGiven(a, b) =>
                   Last(audio_pushed).timestamp_ms <= frame["pa"].timestamp_ms

\* The order is kept between timestamps in the same span of 2^32 ms; a
\* timestamp late in one span and one early in the next are stored in
\* the reverse order.
C29_OrderKeptWithinSpan ==
    \A a, b \in TimestampUs(MaxTs) :
        /\ (UsLeq(a, b) /\ a.hi = b.hi) =>
               /\ VideoGiven(a, b) =>
                      Last(video_pushed).timestamp_ms <= frame["pv"].timestamp_ms
               /\ AudioGiven(a, b) =>
                      Last(audio_pushed).timestamp_ms <= frame["pa"].timestamp_ms
        /\ (a.hi < b.hi /\ a.lo > b.lo) =>
               /\ UsLeq(a, b)
               /\ VideoGiven(a, b) =>
                      Last(video_pushed).timestamp_ms > frame["pv"].timestamp_ms
               /\ AudioGiven(a, b) =>
                      Last(audio_pushed).timestamp_ms > frame["pa"].timestamp_ms

(* C30: underflow of the video PTS *)

\* The video loop ended in a panic.
VideoPanicked(s) == enc_pc[s] = "panic" /\ "video" \notin flushed[s] /\ filtered_video[s] # <<>>

\* C30: every frame handed to the video encoder has a timestamp_ms at or
\* above that of the first frame of the encoded sequence, so the u32
\* subtraction that computes its PTS never underflows.
C30_PtsNeverUnderflows ==
    \A s \in Savers :
        /\ ~VideoPanicked(s)
        /\ \A k \in 1..Len(sent_video[s]) : ~sent_video[s][k].pts.wrapped
        /\ pc[s] = "encoding" =>
               \A i \in 1..Len(filtered_video[s]) :
                   filtered_video[s][i].data = ExpectedSize =>
                       filtered_video[s][i].timestamp_ms >=
                           filtered_video[s][1].timestamp_ms

\* The subtraction underflows exactly for the frames of the expected size
\* whose timestamp is below the first frame's: with overflow checks the
\* worker panics at the first of them, without them the frame is sent with
\* a PTS wrapped around 2^32.
C30_UnderflowOnDescendingTimestamps ==
    \A s \in Savers :
        LET fv == filtered_video[s]
        IN  /\ VideoPanicked(s) =>
                   /\ overflow_checks
                   /\ fv[idx[s]].data = ExpectedSize
                   /\ fv[idx[s]].timestamp_ms < fv[1].timestamp_ms
            /\ \A k \in 1..Len(sent_video[s]) :
                   LET f == fv[sent_video[s][k].idx]
                   IN  /\ sent_video[s][k].pts.wrapped <=>
                              f.timestamp_ms < fv[1].timestamp_ms
                       /\ sent_video[s][k].pts.wrapped => ~overflow_checks

====
